---- MODULE Spec2Model ----
(***************************************************************************)
(* Model of the session state machine and broadcast protocol of            *)
(* src/server.py (class BuzzerServer).                                     *)
(*                                                                         *)
(* The server is a single asyncio event loop.  Every connection has its    *)
(* own task (client_handler) that handles its messages one at a time;      *)
(* tasks of different connections interleave only at `await               *)
(* websocket.send(...)`.  One step of the model is therefore one atomic    *)
(* run of a task: from the point where it is resumed up to and including   *)
(* its next send.  At most one message is sent per step.  A task whose     *)
(* pending send is followed by nothing but returns is taken to be done     *)
(* with that send: the returns read and write nothing.                     *)
(*                                                                         *)
(* connected_at is written by register_client and never read; it is left   *)
(* out of the records.                                                     *)
(***************************************************************************)
EXTENDS Integers, Sequences, FiniteSets, TLC

\* ---- bounds ----
MaxLog == 2            \* buzzes accepted between two resets

Conns == {"c1", "c2"}              \* the connections of a run
TeamNames == {"Red", "Blue"}       \* team_name values a client may send
Missing == "<missing>"             \* the register message has no team_name
Commands == {"reset", "lock", "unlock", "noop"}
NoTime == "None"                   \* buzz_time = None
Stamp == "T"                       \* a reading of datetime.now(); the server
                                   \* stores and forwards it and never
                                   \* compares two readings

VARIABLES
    clients,         \* self.clients: dict in insertion order, <<[ws, rec]>>
    admin_clients,   \* self.admin_clients
    buzzers_locked,  \* self.buzzers_locked
    buzz_order,      \* self.buzz_order
    conn,            \* per connection: "open", "broken" (sends fail, the
                     \* receive loop still drains queued messages), "closed"
    task,            \* per connection: the position of its client_handler task
    last             \* what the last step did (operation, message sent,
                     \* broadcast passes that returned)

vars == <<clients, admin_clients, buzzers_locked, buzz_order, conn, task, last>>

\* ---- the clients dict --------------------------------------------------
Has(cl, ws) == \E i \in 1..Len(cl) : cl[i].ws = ws

Get(cl, ws) == cl[CHOOSE i \in 1..Len(cl) : cl[i].ws = ws].rec

\* self.clients[websocket] = rec : an existing key keeps its position
Put(cl, ws, rec) ==
    IF Has(cl, ws)
    THEN [i \in 1..Len(cl) |-> IF cl[i].ws = ws THEN [ws |-> ws, rec |-> rec] ELSE cl[i]]
    ELSE Append(cl, [ws |-> ws, rec |-> rec])

\* del self.clients[websocket]
Del(cl, ws) == SelectSeq(cl, LAMBDA e : e.ws # ws)

Keys(cl) == [i \in 1..Len(cl) |-> cl[i].ws]

Buzzers(cl) == SelectSeq(cl, LAMBDA e : e.rec.type = "buzzer")

\* existing_teams that misses every name (no duplicate check)
existing_teams_none(cl) == {}

\* existing_teams that looks at the first Buzzer record only
existing_teams_first(cl) ==
    IF Buzzers(cl) = <<>> THEN {} ELSE {Buzzers(cl)[1].rec.team_name}

\* existing_teams = [c['team_name'] for c in clients.values() if buzzer]
existing_teams(cl) == {Buzzers(cl)[i].rec.team_name : i \in 1..Len(Buzzers(cl))}

\* f'Team {len([buzzers]) + 1}'
DefaultName(cl) == "Team " \o ToString(Len(Buzzers(cl)) + 1)

AdminRec == [type |-> "admin"]
BuzzerRec(name) == [type |-> "buzzer", team_name |-> name,
                    has_buzzed |-> FALSE, buzz_time |-> NoTime]

\* ---- messages ----------------------------------------------------------
NoMsg == [to |-> "", ok |-> FALSE, body |-> [type |-> "none"]]

\* send_state_update: the role-specific snapshot of the current state
Render(cl, locked, order, ws) ==
    IF Get(cl, ws).type = "admin"
    THEN [type |-> "state_update",
          buzzers_locked |-> locked,
          buzz_order |-> order,
          teams |-> [i \in 1..Len(Buzzers(cl)) |->
                       [team_name |-> Buzzers(cl)[i].rec.team_name,
                        has_buzzed |-> Buzzers(cl)[i].rec.has_buzzed,
                        buzz_time |-> Buzzers(cl)[i].rec.buzz_time]]]
    ELSE [type |-> "state_update",
          buzzers_locked |-> locked,
          has_buzzed |-> Get(cl, ws).has_buzzed,
          buzz_order |-> order]

\* await websocket.send(body): delivered iff the channel is open, else raises
Send(ws, body) == [to |-> ws, ok |-> conn[ws] = "open", body |-> body]

\* ---- broadcast_state_update -------------------------------------------
\* One activation of broadcast_state_update:
\*   copy    clients_copy.keys()
\*   todo    the part of the first loop still to run
\*   failed  disconnected_clients
\*   k       how many entries of disconnected_clients the second loop has done
\*   sent    the connections a snapshot was delivered to in this pass
\*   gone    the connections send_state_update found without a record
\*   removed the failed connections that had no record when their
\*           handle_client_disconnect in the second loop was over
NewPass(cl) == [copy |-> Keys(cl), todo |-> Keys(cl), failed |-> <<>>, k |-> 0,
                sent |-> {}, gone |-> {}, removed |-> {}]

\* broadcast_state_update(): `if not self.clients: return`
Broadcast(cl) == IF cl = <<>> THEN <<>> ELSE <<NewPass(cl)>>

\* a disconnect that drops every record along with that of ws
Remove_all(cl, ad, ws) ==
    IF Has(cl, ws)
    THEN [clients |-> <<>>,
          admin_clients |-> IF Get(cl, ws).type = "admin" THEN ad \ {ws} ELSE ad]
    ELSE [clients |-> cl, admin_clients |-> ad]

\* handle_client_disconnect, up to its broadcast: the registry and the admin
\* set once the record of ws, if any, is removed
Remove(cl, ad, ws) ==
    IF Has(cl, ws)
    THEN [clients |-> Del(cl, ws),
          admin_clients |-> IF Get(cl, ws).type = "admin" THEN ad \ {ws} ELSE ad]
    ELSE [clients |-> cl, admin_clients |-> ad]

\* Runs the task's call stack (innermost activation first) without sending:
\* skips connections that lost their record, runs the cleanup loop
\* (handle_client_disconnect, which starts a nested broadcast) and returns
\* from finished activations, until the next statement is a send or the
\* stack is empty.
RECURSIVE Advance(_)
Advance(st) ==
    IF st.stk = <<>> THEN st
    ELSE LET f == Head(st.stk)
             rest == Tail(st.stk)
         IN IF f.todo # <<>>
            THEN IF Has(st.clients, Head(f.todo))
                 THEN st
                 ELSE Advance([st EXCEPT !.stk =
                        <<[f EXCEPT !.todo = Tail(@),
                                    !.gone = @ \cup {Head(f.todo)}]>> \o rest])
            ELSE IF f.k < Len(f.failed)
            THEN LET ws == f.failed[f.k + 1]
                     r == Remove(st.clients, st.admin_clients, ws)
                     f2 == [f EXCEPT !.k = @ + 1,
                                     !.removed = IF Has(r.clients, ws) THEN @
                                                 ELSE @ \cup {ws}]
                 IN IF Has(st.clients, ws)
                    THEN Advance([st EXCEPT
                              !.clients = r.clients,
                              !.admin_clients = r.admin_clients,
                              !.stk = Broadcast(r.clients) \o <<f2>> \o rest])
                    ELSE Advance([st EXCEPT !.stk = <<f2>> \o rest])
            ELSE Advance([st EXCEPT !.stk = rest, !.done = Append(@, f)])

\* a first loop that stops at the first failed delivery
SendPass_abort(f, ws, ok) ==
    IF ok THEN [f EXCEPT !.todo = Tail(@), !.sent = @ \cup {ws}]
    ELSE [f EXCEPT !.todo = <<>>, !.failed = Append(@, ws)]

\* The pass at the top of the stack sends to the head of its todo list.
SendPass(f, ws, ok) ==
    [f EXCEPT !.todo = Tail(@),
              !.failed = IF ok THEN @ ELSE Append(@, ws),
              !.sent = IF ok THEN @ \cup {ws} ELSE @]

\* Every activation on the stack has run both its loops: all that is left
\* after the pending send is to return.
Finished(stk) ==
    \A i \in 1..Len(stk) : stk[i].todo = <<>> /\ stk[i].k = Len(stk[i].failed)

\* Runs a task from where it stands up to and including its next send.  When
\* nothing but returns is left after that send, the task is done with it.
RunToAwait(st) ==
    LET a == Advance(st)
    IN IF a.stk = <<>> THEN [a EXCEPT !.pc = "idle"]
       ELSE LET f == Head(a.stk)
                ws == Head(f.todo)
                m == Send(ws, Render(a.clients, a.locked, a.order, ws))
                stk == <<SendPass(f, ws, m.ok)>> \o Tail(a.stk)
            IN IF Finished(stk)
               THEN [a EXCEPT !.stk = <<>>, !.done = @ \o stk,
                              !.msg = m, !.pc = "idle"]
               ELSE [a EXCEPT !.stk = stk, !.msg = m, !.pc = "await"]

\* The state a handler works on.
St(cl, ad, locked, order, stk) ==
    [clients |-> cl, admin_clients |-> ad, locked |-> locked, order |-> order,
     stk |-> stk, msg |-> NoMsg, done |-> <<>>, pc |-> "idle"]

\* Commits the outcome r of a step of ws's task.
Commit(ws, op, arg, r) ==
    /\ clients' = r.clients
    /\ admin_clients' = r.admin_clients
    /\ buzzers_locked' = r.locked
    /\ buzz_order' = r.order
    /\ task' = [task EXCEPT ![ws] = [pc |-> r.pc, stk |-> r.stk]]
    /\ last' = [op |-> op, ws |-> ws, arg |-> arg, msg |-> r.msg, done |-> r.done]

\* A handler that ends with a single send to its own connection: whether
\* the send returns or raises (the router catches and logs it), the handler
\* is done.
Reply(ws, cl, ad, body) ==
    [St(cl, ad, buzzers_locked, buzz_order, <<>>) EXCEPT !.msg = Send(ws, body)]

CanReceive(ws) == conn[ws] \in {"open", "broken"} /\ task[ws].pc = "idle"

\* ---- handlers -----------------------------------------------------------
register_client(ws, is_admin, name) ==
    /\ CanReceive(ws)
    /\ UNCHANGED conn
    /\ IF is_admin
       THEN LET cl == Put(clients, ws, AdminRec)
            IN Commit(ws, "register", [is_admin |-> TRUE, team_name |-> name],
                      Reply(ws, cl, admin_clients \cup {ws},
                            Render(cl, buzzers_locked, buzz_order, ws)))
       ELSE LET team_name == IF name = Missing THEN DefaultName(clients) ELSE name
            IN IF team_name \in existing_teams(clients)
               THEN Commit(ws, "register", [is_admin |-> FALSE, team_name |-> name],
                           Reply(ws, clients, admin_clients,
                                 [type |-> "registration_rejected",
                                  reason |-> "duplicate_name"]))
               ELSE LET cl == Put(clients, ws, BuzzerRec(team_name))
                    IN Commit(ws, "register", [is_admin |-> FALSE, team_name |-> name],
                              Reply(ws, cl, admin_clients,
                                    Render(cl, buzzers_locked, buzz_order, ws)))

\* A handler that returns without sending.
Return(cl, ad) == St(cl, ad, buzzers_locked, buzz_order, <<>>)

\* a check that forgets the lock
BuzzRefused_buzzed_only(locked, client) == client.has_buzzed

\* a check that forgets has_buzzed
BuzzRefused_locked_only(locked, client) == locked

\* `if self.buzzers_locked or client['has_buzzed']`
BuzzRefused(locked, client) == locked \/ client.has_buzzed

\* an append that numbers the entries from 0
AppendBuzz_zero_based(order, client, buzz_time) ==
    Append(order, [team_name |-> client.team_name,
                   buzz_time |-> buzz_time,
                   order |-> Len(order)])

\* self.buzz_order.append({...})
AppendBuzz(order, client, buzz_time) ==
    Append(order, [team_name |-> client.team_name,
                   buzz_time |-> buzz_time,
                   order |-> Len(order) + 1])

handle_buzz(ws) ==
    /\ CanReceive(ws)
    /\ UNCHANGED conn
    /\ IF ~Has(clients, ws) \/ Get(clients, ws).type # "buzzer"
       THEN Commit(ws, "buzz", "ignored", Return(clients, admin_clients))
       ELSE IF BuzzRefused(buzzers_locked, Get(clients, ws))
       THEN Commit(ws, "buzz", "rejected",
                      Reply(ws, clients, admin_clients,
                            [type |-> "buzz_rejected",
                             reason |-> IF buzzers_locked THEN "locked"
                                        ELSE "already_buzzed"]))
       ELSE /\ Len(buzz_order) < MaxLog
            /\ LET buzz_time == Stamp
                   client == [Get(clients, ws) EXCEPT !.has_buzzed = TRUE,
                                                      !.buzz_time = buzz_time]
                   cl == Put(clients, ws, client)
                   order == AppendBuzz(buzz_order, client, buzz_time)
               IN Commit(ws, "buzz", "accepted",
                         RunToAwait(St(cl, admin_clients, buzzers_locked, order,
                                       Broadcast(cl))))

\* a reset that clears buzz_time and leaves has_buzzed
ResetRecords_keep_flag(cl) ==
    [i \in 1..Len(cl) |->
        IF cl[i].rec.type = "buzzer"
        THEN [cl[i] EXCEPT !.rec.buzz_time = NoTime]
        ELSE cl[i]]

\* reset_buzzers, up to its broadcast
ResetRecords(cl) ==
    [i \in 1..Len(cl) |->
        IF cl[i].rec.type = "buzzer"
        THEN [cl[i] EXCEPT !.rec.has_buzzed = FALSE, !.rec.buzz_time = NoTime]
        ELSE cl[i]]

\* a reset that also reopens the gate
CommandLock_reset_unlocks(command, locked) ==
    IF command = "lock" THEN TRUE
    ELSE IF command \in {"unlock", "reset"} THEN FALSE
    ELSE locked

\* self.buzzers_locked once handle_admin_command has run `command`
CommandLock(command, locked) ==
    IF command = "lock" THEN TRUE
    ELSE IF command = "unlock" THEN FALSE
    ELSE locked

handle_admin_command(ws, command) ==
    /\ CanReceive(ws)
    /\ UNCHANGED conn
    /\ IF ws \notin admin_clients
       THEN Commit(ws, "admin_command", command, Return(clients, admin_clients))
       ELSE IF command \in {"reset", "lock"}
       THEN Commit(ws, "admin_command", command,
                   RunToAwait(St(ResetRecords(clients), admin_clients,
                                 CommandLock(command, buzzers_locked), <<>>,
                                 Broadcast(ResetRecords(clients)))))
       ELSE IF command = "unlock"
       THEN Commit(ws, "admin_command", command,
                   RunToAwait(St(clients, admin_clients,
                                 CommandLock(command, buzzers_locked), buzz_order,
                                 Broadcast(clients))))
       ELSE Commit(ws, "admin_command", command, Return(clients, admin_clients))

\* a router that takes an unknown message for the end of the connection's
\* session and drops the sender's record
handle_client_message_other_drops(ws) ==
    /\ CanReceive(ws)
    /\ UNCHANGED conn
    /\ Commit(ws, "other", "",
              Return(Remove(clients, admin_clients, ws).clients,
                     Remove(clients, admin_clients, ws).admin_clients))

\* handle_client_message on a payload that is not JSON or whose type is
\* none of register, buzz, admin_command
handle_client_message_other(ws) ==
    /\ CanReceive(ws)
    /\ UNCHANGED conn
    /\ Commit(ws, "other", "", Return(clients, admin_clients))

\* a `finally` that does not call handle_client_disconnect
Disconnected_skipped(cl, ad, ws) == Return(cl, ad)

\* a handle_client_disconnect without `if client:`, which broadcasts also
\* when the connection has no record
Disconnected_unguarded(cl, ad, ws) ==
    RunToAwait(St(Remove(cl, ad, ws).clients, Remove(cl, ad, ws).admin_clients,
                  buzzers_locked, buzz_order,
                  Broadcast(Remove(cl, ad, ws).clients)))

\* handle_client_disconnect, up to the first send of its broadcast
Disconnected(cl, ad, ws) ==
    IF Has(cl, ws)
    THEN RunToAwait(St(Remove(cl, ad, ws).clients, Remove(cl, ad, ws).admin_clients,
                       buzzers_locked, buzz_order,
                       Broadcast(Remove(cl, ad, ws).clients)))
    ELSE Return(cl, ad)

\* client_handler: the receive loop ends and `finally` runs
\* handle_client_disconnect(websocket)
client_handler_finally(ws) ==
    /\ conn[ws] = "broken"
    /\ task[ws].pc = "idle"
    /\ conn' = [conn EXCEPT ![ws] = "closed"]
    /\ Commit(ws, "disconnect", "", Disconnected(clients, admin_clients, ws))

\* The task of ws is resumed from its pending send.
Resume(ws) ==
    /\ task[ws].pc = "await"
    /\ UNCHANGED conn
    /\ Commit(ws, "resume", "",
              RunToAwait(St(clients, admin_clients, buzzers_locked, buzz_order,
                            task[ws].stk)))

\* The peer goes away or the channel breaks: from now on every send to ws
\* raises.  Messages already queued are still handed to the receive loop.
ConnectionLost(ws) ==
    /\ conn[ws] = "open"
    /\ conn' = [conn EXCEPT ![ws] = "broken"]
    /\ last' = [op |-> "lost", ws |-> ws, arg |-> "", msg |-> NoMsg, done |-> <<>>]
    /\ UNCHANGED <<clients, admin_clients, buzzers_locked, buzz_order, task>>

Init ==
    /\ clients = <<>>
    /\ admin_clients = {}
    /\ buzzers_locked = TRUE
    /\ buzz_order = <<>>
    /\ conn = [c \in Conns |-> "open"]
    /\ task = [c \in Conns |-> [pc |-> "idle", stk |-> <<>>]]
    /\ last = [op |-> "init", ws |-> "", arg |-> "", msg |-> NoMsg, done |-> <<>>]

Next ==
    \/ \E ws \in Conns : register_client(ws, TRUE, Missing)
    \/ \E ws \in Conns, name \in TeamNames : register_client(ws, FALSE, name)
    \/ \E ws \in Conns : handle_buzz(ws)
    \/ \E ws \in Conns, command \in Commands : handle_admin_command(ws, command)
    \/ \E ws \in Conns : handle_client_message_other(ws)
    \/ \E ws \in Conns : client_handler_finally(ws)
    \/ \E ws \in Conns : Resume(ws)
    \/ \E ws \in Conns : ConnectionLost(ws)

Spec == Init /\ [][Next]_vars

\* The part of Next that connects, disconnects and broadcasts: one team
\* name, and unlock as the only command.
NextFair ==
    \/ \E ws \in Conns : register_client(ws, TRUE, Missing)
    \/ \E ws \in Conns : register_client(ws, FALSE, "Red")
    \/ \E ws \in Conns : handle_buzz(ws)
    \/ \E ws \in Conns : handle_admin_command(ws, "unlock")
    \/ \E ws \in Conns : client_handler_finally(ws)
    \/ \E ws \in Conns : Resume(ws)
    \/ \E ws \in Conns : ConnectionLost(ws)

\* The event loop resumes a task suspended in `await websocket.send` once the
\* send has returned or raised.  This is weak fairness of Resume(ws), with
\* ENABLED <<Resume(ws)>>_vars written out: Resume(ws) is enabled exactly
\* when the task is suspended, and every Resume step changes task[ws].
Scheduled(ws) ==
    []<>(task[ws].pc # "await") \/ []<><<Resume(ws)>>_vars

SpecFair == Init /\ [][NextFair]_vars /\ \A ws \in Conns : Scheduled(ws)

\* Connections that register without a team_name, register as Admin, and
\* leave.
NextNames ==
    \/ \E ws \in Conns : register_client(ws, TRUE, Missing)
    \/ \E ws \in Conns : register_client(ws, FALSE, Missing)
    \/ \E ws \in Conns : client_handler_finally(ws)
    \/ \E ws \in Conns : Resume(ws)
    \/ \E ws \in Conns : ConnectionLost(ws)

SpecNames == Init /\ [][NextNames]_vars

\* ---- properties ---------------------------------------------------------
IsBuzzer(cl, ws) == Has(cl, ws) /\ Get(cl, ws).type = "buzzer"
IsAdmin(cl, ws) == Has(cl, ws) /\ Get(cl, ws).type = "admin"
Range(q) == {q[i] : i \in 1..Len(q)}
session == <<clients, admin_clients, buzzers_locked, buzz_order>>

\* some registered Buzzer has the name
NameHeld(cl, name) ==
    \E i \in 1..Len(cl) : cl[i].rec.type = "buzzer" /\ cl[i].rec.team_name = name

\* every Buzzer record is in the ready state
Cleared(cl) ==
    \A i \in 1..Len(cl) :
        cl[i].rec.type = "buzzer" =>
            ~cl[i].rec.has_buzzed /\ cl[i].rec.buzz_time = NoTime

\* C1: the order field of the i-th entry of the buzz log is i, and a step
\* changes the log only by emptying it or by appending, at the end, the entry
\* of the Buzzer whose buzz the step accepted.
C1_LogOrder ==
    /\ [](\A i \in 1..Len(buzz_order) : buzz_order[i].order = i)
    /\ [][\/ buzz_order' = buzz_order
          \/ buzz_order' = <<>>
          \/ /\ last'.op = "buzz"
             /\ IsBuzzer(clients, last'.ws)
             /\ Len(buzz_order') = Len(buzz_order) + 1
             /\ SubSeq(buzz_order', 1, Len(buzz_order)) = buzz_order
             /\ buzz_order'[Len(buzz_order')].team_name
                    = Get(clients, last'.ws).team_name]_vars

\* two teams have buzzed one after the other
C1_Witness ==
    /\ last.op = "buzz" /\ last.arg = "accepted"
    /\ Len(buzz_order) = 2
    /\ buzz_order[1].team_name # buzz_order[2].team_name

\* C2: no two entries of the buzz log carry the same team_name.
C2_NoTeamTwice ==
    \A i, j \in 1..Len(buzz_order) :
        i # j => buzz_order[i].team_name # buzz_order[j].team_name

\* C3: a lock command from a connection of the admin set leaves the session
\* locked, every Buzzer record ready and the buzz log empty.
C3_Lock ==
    [][(last'.op = "admin_command" /\ last'.arg = "lock"
            /\ last'.ws \in admin_clients)
        => (buzzers_locked' /\ Cleared(clients') /\ buzz_order' = <<>>)]_vars

\* an Admin has locked a session with a registered Buzzer, and the broadcast
\* of the lock has started
C3_Witness ==
    /\ last.op = "admin_command" /\ last.arg = "lock"
    /\ IsAdmin(clients, last.ws) /\ last.ws \in admin_clients
    /\ \E ws \in Conns : IsBuzzer(clients, ws)
    /\ last.msg.body.type = "state_update"
    /\ buzzers_locked

\* C4: a reset command from a connection of the admin set leaves every Buzzer
\* record ready and the buzz log empty, and the lock flag as it was.
C4_Reset ==
    [][(last'.op = "admin_command" /\ last'.arg = "reset"
            /\ last'.ws \in admin_clients)
        => (/\ Cleared(clients') /\ buzz_order' = <<>>
            /\ buzzers_locked' = buzzers_locked)]_vars

\* an Admin has reset an unlocked session with a registered Buzzer
C4_Witness ==
    /\ last.op = "admin_command" /\ last.arg = "reset"
    /\ IsAdmin(clients, last.ws) /\ last.ws \in admin_clients
    /\ \E ws \in Conns : IsBuzzer(clients, ws)
    /\ last.msg.body.type = "state_update"
    /\ ~buzzers_locked

\* C5: a Buzzer register whose name is held by a registered Buzzer is
\* answered with registration_rejected(duplicate_name) to the caller and
\* changes nothing; a Buzzer register whose name is not held creates the
\* record; and a name is held by nobody once the record of its holder is
\* removed.
C5_DuplicateName ==
    [][/\ \A ws \in Conns, name \in TeamNames :
            (last'.op = "register" /\ last'.ws = ws
                /\ last'.arg = [is_admin |-> FALSE, team_name |-> name])
            => IF NameHeld(clients, name)
               THEN /\ last'.msg = [to |-> ws, ok |-> conn[ws] = "open",
                                    body |-> [type |-> "registration_rejected",
                                              reason |-> "duplicate_name"]]
                    /\ UNCHANGED session
               ELSE /\ IsBuzzer(clients', ws)
                    /\ Get(clients', ws) = BuzzerRec(name)
       /\ \A ws \in Conns :
            (IsBuzzer(clients, ws) /\ ~Has(clients', ws))
            => ~NameHeld(clients', Get(clients, ws).team_name)]_vars

\* a register was rejected because another connection holds the name
C5_Witness ==
    /\ last.op = "register"
    /\ last.msg.to = last.ws
    /\ last.msg.body.type = "registration_rejected"
    /\ \E ws \in Conns \ {last.ws} :
          IsBuzzer(clients, ws) /\ Get(clients, ws).team_name = last.arg.team_name

\* C6: no two registered Buzzers have the same team_name, and when a register
\* is rejected exactly one registered Buzzer holds the requested name.
C6_UniqueNames ==
    /\ \A i, j \in 1..Len(clients) :
          (i # j /\ clients[i].rec.type = "buzzer" /\ clients[j].rec.type = "buzzer")
          => clients[i].rec.team_name # clients[j].rec.team_name
    /\ last.msg.body.type = "registration_rejected"
          => Cardinality({i \in 1..Len(clients) :
                            /\ clients[i].rec.type = "buzzer"
                            /\ clients[i].rec.team_name = last.arg.team_name}) = 1

\* two open connections asked for the same name: the first holds it, the
\* second has just been rejected and has no record
C6_Witness ==
    \E a, b \in Conns :
        /\ a # b
        /\ conn[a] = "open" /\ conn[b] = "open"
        /\ IsBuzzer(clients, a) /\ Get(clients, a).team_name = "Red"
        /\ ~IsBuzzer(clients, b)
        /\ last.op = "register" /\ last.ws = b
        /\ last.arg = [is_admin |-> FALSE, team_name |-> "Red"]
        /\ last.msg.body.type = "registration_rejected"

\* C7: a buzz of a registered Buzzer while locked, or while unlocked with
\* has_buzzed set, is answered with buzz_rejected (locked, resp.
\* already_buzzed) to the caller; the handler sends nothing else and changes
\* neither the lock flag, the buzz log nor a record.
C7_BuzzRejected ==
    [][\A ws \in Conns :
        (last'.op = "buzz" /\ last'.ws = ws /\ IsBuzzer(clients, ws)
            /\ (buzzers_locked \/ Get(clients, ws).has_buzzed))
        => /\ last'.msg = [to |-> ws, ok |-> conn[ws] = "open",
                           body |-> [type |-> "buzz_rejected",
                                     reason |-> IF buzzers_locked THEN "locked"
                                                ELSE "already_buzzed"]]
           /\ task'[ws].stk = <<>>
           /\ UNCHANGED session]_vars

\* a second buzz of the same team was rejected while unlocked
C7_Witness ==
    /\ last.op = "buzz" /\ last.arg = "rejected"
    /\ ~buzzers_locked
    /\ last.msg.to = last.ws
    /\ last.msg.body = [type |-> "buzz_rejected", reason |-> "already_buzzed"]

\* C8: an admin_command from a connection whose current record is not an
\* Admin record (no record, or a Buzzer record) changes nothing and sends
\* nothing.
C8_NonAdminCommand ==
    [][(last'.op = "admin_command" /\ ~IsAdmin(clients, last'.ws))
        => (UNCHANGED session /\ last'.msg = NoMsg)]_vars

\* C9 as claimed: the snapshot sent when the receive loop of a Buzzer ended
\* and its record was removed shows its team neither in the buzz log nor in
\* the roster.
C9_TeamAbsentFromSnapshot ==
    [][\A ws \in Conns :
        (last'.op = "disconnect" /\ last'.ws = ws /\ IsBuzzer(clients, ws)
            /\ last'.msg.body.type = "state_update")
        => /\ \A i \in 1..Len(last'.msg.body.buzz_order) :
                last'.msg.body.buzz_order[i].team_name # Get(clients, ws).team_name
           /\ IsAdmin(clients', last'.msg.to)
                => \A i \in 1..Len(last'.msg.body.teams) :
                      last'.msg.body.teams[i].team_name
                          # Get(clients, ws).team_name]_vars

\* C9 as amended: a connection whose receive loop has ended has no record,
\* every roster entry of a snapshot is the team of a registered Buzzer whose
\* loop has not ended, and the disconnect leaves the buzz log as it was.
C9_RosterOnlyRegistered ==
    /\ [](/\ \A ws \in Conns : conn[ws] = "closed" => ~Has(clients, ws)
          /\ (last.msg.body.type = "state_update" /\ IsAdmin(clients, last.msg.to))
                => \A i \in 1..Len(last.msg.body.teams) :
                      \E ws \in Conns :
                          /\ IsBuzzer(clients, ws) /\ conn[ws] # "closed"
                          /\ Get(clients, ws).team_name
                                = last.msg.body.teams[i].team_name)
    /\ [][last'.op = "disconnect" => buzz_order' = buzz_order]_vars

\* an Admin is sent a snapshot after the Buzzer that buzzed has gone: the
\* roster is empty, the buzz log still has the entry
C9_Witness ==
    /\ \E ws \in Conns : conn[ws] = "closed"
    /\ last.op = "disconnect"
    /\ last.msg.ok /\ IsAdmin(clients, last.msg.to)
    /\ last.msg.body.teams = <<>>
    /\ last.msg.body.buzz_order # <<>>

\* C10: when a broadcast pass returns, every connection of clients_copy was
\* delivered a snapshot, or failed, or had no record at its turn, and every
\* failed connection had its record removed by the cleanup loop.
C10_FailureIsolated ==
    \A i \in 1..Len(last.done) :
        /\ Range(last.done[i].copy)
              = last.done[i].sent \cup Range(last.done[i].failed)
                    \cup last.done[i].gone
        /\ last.done[i].removed = Range(last.done[i].failed)

\* a pass returned in which one delivery failed and another succeeded
\* after it
C10_Witness ==
    \E i \in 1..Len(last.done) :
        /\ last.done[i].failed # <<>>
        /\ \E j \in 2..Len(last.done[i].copy) :
              /\ last.done[i].copy[j] \in last.done[i].sent
              /\ last.done[i].copy[1] \in Range(last.done[i].failed)

\* C11: a message that is not JSON, or whose type is none of register, buzz,
\* admin_command, changes neither the lock flag, the buzz log, the registry
\* nor the admin set, sends nothing, starts no broadcast, and leaves the
\* connection of the sender as it was (open if it was open, its record
\* still in the registry).
C11_UnknownMessage ==
    [][\A ws \in Conns :
        (last'.op = "other" /\ last'.ws = ws)
        => /\ UNCHANGED session
           /\ last'.msg = NoMsg
           /\ task'[ws] = [pc |-> "idle", stk |-> <<>>]
           /\ conn' = conn
           /\ Has(clients, ws) => (Has(clients', ws)
                                    /\ Get(clients', ws) = Get(clients, ws))]_vars

\* an unknown message from an open, registered Buzzer that has buzzed
C11_Witness ==
    /\ last.op = "other"
    /\ conn[last.ws] = "open"
    /\ IsBuzzer(clients, last.ws) /\ Get(clients, last.ws).has_buzzed
    /\ buzz_order # <<>> /\ ~buzzers_locked

\* C12: a step that leaves the record of a connection in the registry leaves
\* the role of that record as it was.
C12_RoleImmutable ==
    [][\A ws \in Conns :
        (Has(clients, ws) /\ Has(clients', ws))
        => Get(clients', ws).type = Get(clients, ws).type]_vars

\* C13: every registered Buzzer with has_buzzed set has exactly one entry of
\* the buzz log that carries its team_name.
C13_OneEntryPerBuzzed ==
    \A i \in 1..Len(clients) :
        (clients[i].rec.type = "buzzer" /\ clients[i].rec.has_buzzed)
        => Cardinality({j \in 1..Len(buzz_order) :
                           buzz_order[j].team_name = clients[i].rec.team_name}) = 1

\* C14: every state_update sent is the snapshot, for the role of its
\* addressee, of the state in which it is rendered (lock flag, full buzz
\* log; own has_buzzed for a Buzzer; for an Admin one roster element for
\* every registered Buzzer and for no one else); and every snapshot that the
\* handler of an accepted buzz of team T sends to T has has_buzzed set and an
\* entry of T in the log, and every one it sends to an Admin has an entry of
\* T in the log and T with has_buzzed set in the roster.
C14_SnapshotIsRender ==
    /\ [](last.msg.body.type = "state_update"
          => LET b == last.msg.body
                 to == last.msg.to
             IN /\ Has(clients, to)
                /\ b.buzzers_locked = buzzers_locked
                /\ b.buzz_order = buzz_order
                /\ IF IsAdmin(clients, to)
                   THEN /\ DOMAIN b = {"type", "buzzers_locked", "buzz_order", "teams"}
                        /\ Len(b.teams)
                             = Cardinality({ws \in Conns : IsBuzzer(clients, ws)})
                        /\ \A ws \in Conns :
                             IsBuzzer(clients, ws)
                             => \E i \in 1..Len(b.teams) :
                                   b.teams[i]
                                     = [team_name |-> Get(clients, ws).team_name,
                                        has_buzzed |-> Get(clients, ws).has_buzzed,
                                        buzz_time |-> Get(clients, ws).buzz_time]
                   ELSE /\ DOMAIN b = {"type", "buzzers_locked", "buzz_order",
                                       "has_buzzed"}
                        /\ b.has_buzzed = Get(clients, to).has_buzzed)
    /\ [][\A ws \in Conns :
            (/\ last'.ws = ws
             /\ IsBuzzer(clients, ws) /\ IsBuzzer(clients', ws)
             /\ \/ last'.op = "buzz" /\ last'.arg = "accepted"
                \/ /\ last'.op = "resume"
                   /\ ws \notin admin_clients /\ conn[ws] # "closed"
             /\ last'.msg.body.type = "state_update")
            => LET b == last'.msg.body
                   T == Get(clients, ws).team_name
               IN /\ \E i \in 1..Len(b.buzz_order) : b.buzz_order[i].team_name = T
                  /\ last'.msg.to = ws => b.has_buzzed
                  /\ IsAdmin(clients', last'.msg.to)
                       => \E i \in 1..Len(b.teams) :
                             b.teams[i].team_name = T /\ b.teams[i].has_buzzed]_vars

\* C15: every snapshot delivered in the broadcast pass that an accepted buzz
\* started shows the state that the buzz produced: the session unlocked and
\* the buzz log not empty.  (A task suspended in a send, of a connection
\* that is a registered Buzzer outside the admin set and whose receive loop
\* has not ended, is in the broadcast of its accepted buzz; with one pass on
\* its stack and a registered connection next, the send is that pass's.)
C15_PassShowsOneState ==
    [][\A ws \in Conns :
        (/\ last'.op = "resume" /\ last'.ws = ws
         /\ conn[ws] # "closed"
         /\ IsBuzzer(clients, ws) /\ ws \notin admin_clients
         /\ Len(task[ws].stk) = 1
         /\ Head(task[ws].stk).todo # <<>>
         /\ Has(clients, Head(Head(task[ws].stk).todo))
         /\ last'.msg.ok)
        => /\ ~last'.msg.body.buzzers_locked
           /\ last'.msg.body.buzz_order # <<>>]_vars

\* C16: every broadcast comes to an end, whichever deliveries fail: a task
\* suspended in a broadcast, with the cleanup and the nested broadcasts it
\* entails, is eventually done.  The record of a failed connection is
\* removed once: when its receive loop ends, the connection has no record,
\* and if a broadcast had removed the record before, the disconnect at the
\* end of the loop changes nothing and sends nothing.
C16_CleanupTerminates ==
    /\ \A ws \in Conns : (task[ws].pc = "await") ~> (task[ws].pc = "idle")
    /\ [][\A ws \in Conns :
            (last'.op = "disconnect" /\ last'.ws = ws)
            => /\ ~Has(clients', ws)
               /\ ~Has(clients, ws)
                    => (UNCHANGED session /\ last'.msg = NoMsg
                        /\ task'[ws] = [pc |-> "idle", stk |-> <<>>])]_vars

\* a broadcast is over in which a connection failed in the outer pass and
\* again in the pass nested in the cleanup of another failed connection; it
\* has no record
C16_Witness ==
    \E i, j \in 1..Len(last.done) :
        /\ i < j
        /\ Len(last.done[j].failed) = 2
        /\ \E ws \in Range(last.done[i].failed) \cap Range(last.done[j].failed) :
              ~Has(clients, ws)

\* C17: when the only send of a handler (the first snapshot of register, a
\* registration_rejected, a buzz_rejected) raises, so that the error reaches
\* the router, the registry, the admin set, the lock flag and the buzz log
\* are as they were before the message.
C17_AllOrNothing ==
    [][(/\ last'.op \in {"register", "buzz"}
        /\ last'.op = "buzz" => last'.arg = "rejected"
        /\ last'.msg.to = last'.ws
        /\ ~last'.msg.ok)
       => UNCHANGED session]_vars

\* C18: a Buzzer register without team_name, handled when k Buzzers are
\* registered, leaves the connection with the Buzzer record named
\* "Team k+1", has_buzzed not set.
C18_FallbackName ==
    [][\A ws \in Conns :
        (last'.op = "register" /\ last'.ws = ws
            /\ last'.arg = [is_admin |-> FALSE, team_name |-> Missing])
        => LET k == Cardinality({c \in Conns : IsBuzzer(clients, c)})
           IN /\ IsBuzzer(clients', ws)
              /\ Get(clients', ws) = [type |-> "buzzer",
                                      team_name |-> "Team " \o ToString(k + 1),
                                      has_buzzed |-> FALSE,
                                      buzz_time |-> NoTime]]_vars

\* C19: whenever the session is locked, the buzz log is empty and no
\* registered Buzzer has has_buzzed set.
C19_LockedIsClear ==
    buzzers_locked
    => /\ buzz_order = <<>>
       /\ \A ws \in Conns : IsBuzzer(clients, ws) => ~Get(clients, ws).has_buzzed

\* a registered Buzzer has buzzed into a locked session and was refused
C19_Witness ==
    /\ buzzers_locked
    /\ last.op = "buzz" /\ last.arg = "rejected"
    /\ IsBuzzer(clients, last.ws)
    /\ last.msg.body = [type |-> "buzz_rejected", reason |-> "locked"]

\* C20: the disconnect at the end of the receive loop of a connection
\* without a record changes neither the registry, the admin set, the lock
\* flag nor the buzz log and starts no broadcast; that of a registered
\* connection removes the record of that connection and no other, and
\* leaves the lock flag and the buzz log as they were.
C20_Disconnect ==
    [][\A ws \in Conns :
        (last'.op = "disconnect" /\ last'.ws = ws)
        => IF ~Has(clients, ws)
           THEN /\ UNCHANGED session
                /\ last'.msg = NoMsg /\ last'.done = <<>>
                /\ task'[ws] = [pc |-> "idle", stk |-> <<>>]
           ELSE /\ ~Has(clients', ws)
                /\ Len(clients') = Len(clients) - 1
                /\ \A c \in Conns \ {ws} :
                      Has(clients, c)
                      => Has(clients', c) /\ Get(clients', c) = Get(clients, c)
                /\ buzzers_locked' = buzzers_locked
                /\ buzz_order' = buzz_order]_vars

\* the receive loop of a registered connection has ended while the session
\* was unlocked and teams had buzzed; a Buzzer that is still registered was
\* sent the snapshot
C20_Witness ==
    /\ last.op = "disconnect"
    /\ last.msg.ok /\ IsBuzzer(clients, last.msg.to)
    /\ ~buzzers_locked /\ buzz_order # <<>>
====
